---- MODULE Spec2Model ----
(***************************************************************************)
(* Model of clipboard_manager.py: the Mapping Index built by               *)
(* load_files_mapping, and the sequential key state machine driven by      *)
(* on_ctrl_c and on_key_event.                                              *)
(*                                                                         *)
(* Python strings are sequences of one-character strings, so that         *)
(* isdigit, startswith, slicing, lower and concatenation are computed as   *)
(* the code computes them.  A file path os.path.join(BASE_DIR, d, f) is    *)
(* the pair <<d, f>>.  time.time() is the variable now, in whole seconds.  *)
(***************************************************************************)
EXTENDS Integers, Sequences, FiniteSets, TLC

VARIABLES
    pc,       \* "boot" before register_hotkeys has run, "run" after
    fs,       \* the files under BASE_DIR: a set of [dir, file] records
    state,    \* the global dict state: status, digit, last_time, mapping
    now,      \* time.time()
    calls,    \* the copy_file_content calls made by the latest step
    prints,   \* the messages printed by the latest step
    last,     \* the latest event delivered: [kind, name, t, from]
    hotkeys,  \* the bindings keyboard.add_hotkey accepted: [hotkey, action, path]
    rejected, \* the hotkey names keyboard.add_hotkey raises on
    hooked,   \* whether keyboard.hook(on_key_event) has been called
    sink,     \* what the latest step handed to pyperclip.copy
    seqSink,  \* what the latest on_ctrl_c or on_key_event call handed to it
    track,    \* where the events delivered so far stand in a sequence
    th        \* the handlers in progress when each runs on a thread of its own

vars == <<pc, fs, state, now, calls, prints, last, hotkeys, rejected, hooked,
          sink, seqSink, track, th>>

----------------------------------------------------------------------------
(* Bounds *)

MaxTime == 6

MaxEntries == 3

----------------------------------------------------------------------------
(* Strings *)

None == <<"None">>

UpperChars == <<"A","B","C","D","E","F","G","H","I","J","K","L","M",
                "N","O","P","Q","R","S","T","U","V","W","X","Y","Z">>

LowerChars == <<"a","b","c","d","e","f","g","h","i","j","k","l","m",
                "n","o","p","q","r","s","t","u","v","w","x","y","z">>

DigitChars == {"0","1","2","3","4","5","6","7","8","9"}

LowerChar(c) ==
    IF \E i \in DOMAIN UpperChars : UpperChars[i] = c
    THEN LowerChars[CHOOSE i \in DOMAIN UpperChars : UpperChars[i] = c]
    ELSE c

\* str.lower()
Lower(s) == [i \in DOMAIN s |-> LowerChar(s[i])]

\* str.isdigit(): non-empty and every character a digit
IsDigit(s) == Len(s) > 0 /\ \A i \in DOMAIN s : s[i] \in DigitChars

\* str.startswith(prefix)
StartsWith(s, p) == Len(p) <= Len(s) /\ SubSeq(s, 1, Len(p)) = p

\* s[n:]
DropFirst(s, n) == SubSeq(s, n + 1, Len(s))

----------------------------------------------------------------------------
(* The directory tree under BASE_DIR *)

\* A file BASE_DIR/dir/file; dir = <<>> is a regular file directly in BASE_DIR.
Entry(d, f) == [dir |-> d, file |-> f]

DirNames == { <<"1">>, <<"1","2">>, <<"x">> }

FileNames == { <<"1","a",".","t","x","t">>,
               <<"1","A",".","t","x","t">>,
               <<"1","x",".","t","x","t">>,
               <<"2","a",".","t","x","t">>,
               <<"1","c",".","t","x","t">>,
               <<"1",".","t","x","t">>,
               <<"1","2","a",".","t","x","t">>,
               <<"1","a",".","m","d">> }

RootFiles == { <<"7">> }

Universe == { Entry(d, f) : d \in DirNames, f \in FileNames }
            \cup { Entry(<<>>, f) : f \in RootFiles }

\* The trees of at most n files
RECURSIVE Layouts(_)
Layouts(n) ==
    IF n = 0 THEN { {} }
    ELSE LET smaller == Layouts(n - 1)
         IN  smaller \cup { S \cup {e} : S \in smaller, e \in Universe }

AllLayouts == Layouts(MaxEntries)

\* The orders in which os.listdir and glob.glob may enumerate a tree: any
\* permutation of its entries.  os.listdir yields the items in the order of
\* their first entry, glob the files of a directory in the order of the walk.
Walks(S) ==
    { w \in [1..Cardinality(S) -> S] : \A x \in S : \E i \in DOMAIN w : w[i] = x }

\* The name os.listdir reports for an entry
Item(e) == IF e.dir = <<>> THEN e.file ELSE e.dir

RECURSIVE ListDir(_)
ListDir(walk) ==
    IF walk = <<>> THEN <<>>
    ELSE LET front == ListDir(SubSeq(walk, 1, Len(walk) - 1))
             item  == Item(walk[Len(walk)])
         IN  IF \E i \in DOMAIN front : front[i] = item
             THEN front ELSE Append(front, item)

\* os.path.isdir(os.path.join(BASE_DIR, item))
IsDir(walk, item) == \E i \in DOMAIN walk : walk[i].dir = item

\* fnmatch of a file name against "*.txt"; glob skips names starting with "."
MatchTxt(f) ==
    /\ Len(f) >= Len(<<".","t","x","t">>)
    /\ DropFirst(f, Len(f) - Len(<<".","t","x","t">>)) = <<".","t","x","t">>
    /\ f[1] # "."

\* os.path.join(dir_path, filename)
Join(d, f) == <<d, f>>

\* os.path.basename(filepath)
Basename(path) == path[2]

\* glob.glob(os.path.join(dir_path, "*.txt")), in the order of the walk
RECURSIVE Glob(_, _)
Glob(walk, d) ==
    IF walk = <<>> THEN <<>>
    ELSE LET front == Glob(SubSeq(walk, 1, Len(walk) - 1), d)
             e     == walk[Len(walk)]
         IN  IF e.dir = d /\ MatchTxt(e.file)
             THEN Append(front, Join(d, e.file)) ELSE front

\* os.path.splitext(filename)[0]: cut at the last dot, unless only dots
\* precede it
SplitExtName(f) ==
    LET dots == { i \in DOMAIN f : f[i] = "." }
    IN  IF dots = {} THEN f
        ELSE LET dot == CHOOSE i \in dots : \A j \in dots : j <= i
             IN  IF \E j \in 1..(dot - 1) : f[j] # "."
                 THEN SubSeq(f, 1, dot - 1) ELSE f

----------------------------------------------------------------------------
(* load_files_mapping *)

EmptyMapping == [k \in {} |-> <<>>]

\* mapping[key] = filepath
Put(m, k, v) == [x \in DOMAIN m \cup {k} |-> IF x = k THEN v ELSE m[x]]

\* AddFile without the test of line 74: any .txt file of the directory is
\* registered
AddFileAnyPrefix(m, digit, filepath) ==
    LET filename == Basename(filepath)
        name     == SplitExtName(filename)
        char_part == DropFirst(name, Len(digit))
    IN  IF char_part # <<>>
        THEN Put(m, digit \o Lower(char_part), filepath)
        ELSE m

\* The body of the loop over txt_files, lines 70-79
AddFile(m, digit, filepath) ==
    LET filename == Basename(filepath)
        name     == SplitExtName(filename)
    IN  IF StartsWith(name, digit)
        THEN LET char_part == DropFirst(name, Len(digit))
             IN  IF char_part # <<>>
                 THEN Put(m, digit \o Lower(char_part), filepath)
                 ELSE m
        ELSE m

RECURSIVE AddFiles(_, _, _)
AddFiles(m, digit, txt_files) ==
    IF txt_files = <<>> THEN m
    ELSE AddFiles(AddFile(m, digit, Head(txt_files)), digit, Tail(txt_files))

\* The body of the loop over os.listdir(BASE_DIR), lines 63-79
ScanItem(m, walk, item) ==
    IF IsDir(walk, item) /\ IsDigit(item)
    THEN AddFiles(m, item, Glob(walk, item))
    ELSE m

RECURSIVE ScanItems(_, _, _)
ScanItems(m, walk, items) ==
    IF items = <<>> THEN m
    ELSE ScanItems(ScanItem(m, walk, Head(items)), walk, Tail(items))

load_files_mapping(walk) == ScanItems(EmptyMapping, walk, ListDir(walk))

----------------------------------------------------------------------------
(* Keys and events *)

K_1     == <<"1">>
K_2     == <<"2">>
K_a     == <<"a">>
K_A     == <<"A">>
K_c     == <<"c">>
K_ctrl  == <<"c","t","r","l">>
K_lctrl == <<"l","e","f","t"," ","c","t","r","l">>
K_rctrl == <<"r","i","g","h","t"," ","c","t","r","l">>
K_enter == <<"e","n","t","e","r">>

\* The key names the hook delivers in the model
KeyNames == { K_1, K_2, K_a, K_A, K_c, K_ctrl, K_lctrl, K_rctrl, K_enter }

\* A keyboard event: event.event_type and event.name
KeyEvent(type, name) == [event_type |-> type, name |-> name]

\* The keys whose release is delivered
UpNames == { K_1, K_a }

KeyEvents ==
    { KeyEvent("down", name) : name \in KeyNames }
        \cup { KeyEvent("up", name) : name \in UpNames }

----------------------------------------------------------------------------
(* The state machine *)

TIMEOUT == 3

\* The global dict state as the module creates it, lines 19-24
InitialState ==
    [status |-> "IDLE", digit |-> None, last_time |-> 0, mapping |-> EmptyMapping]

\* What a handler leaves: the state dict, its copy_file_content calls, the
\* messages it printed, what reached pyperclip.copy and whether an exception
\* left it
Outcome(s, c, p) ==
    [state |-> s, calls |-> c, prints |-> p, sink |-> <<>>, raised |-> FALSE]

\* The text f.read() returns for a file
Content(filepath) == <<"text of", filepath>>

\* copy_file_content without the try of lines 48-55: the error leaves it
copy_file_content_NoTry(filepath, readable) ==
    IF readable
    THEN [sink |-> << Content(filepath) >>, prints |-> <<"Copied content">>,
          raised |-> FALSE]
    ELSE [sink |-> <<>>, prints |-> <<>>, raised |-> TRUE]

\* copy_file_content, lines 47-55.  readable: open and read succeed and the
\* bytes decode as utf-8; otherwise the except branch logs and returns
copy_file_content(filepath, readable) ==
    IF readable
    THEN [sink |-> << Content(filepath) >>, prints |-> <<"Copied content">>,
          raised |-> FALSE]
    ELSE [sink |-> <<>>, prints |-> <<"Failed to copy">>, raised |-> FALSE]

\* on_ctrl_c without the assignment of line 86
on_ctrl_c_NoStamp(s, t) ==
    Outcome([s EXCEPT !.status = "WAIT_DIGIT", !.digit = None],
            <<>>, <<"Ctrl+C detected">>)

\* on_ctrl_c without the assignment of line 87
on_ctrl_c_KeepDigit(s, t) ==
    Outcome([s EXCEPT !.status = "WAIT_DIGIT", !.last_time = t],
            <<>>, <<"Ctrl+C detected">>)

\* on_ctrl_c, lines 82-88
on_ctrl_c(s, t) ==
    Outcome([s EXCEPT !.status = "WAIT_DIGIT", !.last_time = t, !.digit = None],
            <<>>, <<"Ctrl+C detected">>)

\* The timeout test applied to WAIT_DIGIT only
TimedOutWaitDigitOnly(s, t) == s.status = "WAIT_DIGIT" /\ t - s.last_time > TIMEOUT

\* The timeout test with >= for >
TimedOutInclusive(s, t) == s.status # "IDLE" /\ t - s.last_time >= TIMEOUT

\* The timeout test of line 97
TimedOut(s, t) == s.status # "IDLE" /\ t - s.last_time > TIMEOUT

\* Check timeout without the assignment of line 99
CheckTimeoutKeepStatus(s, t) ==
    IF TimedOut(s, t)
    THEN Outcome([s EXCEPT !.digit = None], <<>>, <<"Timeout">>)
    ELSE Outcome(s, <<>>, <<>>)

\* Check timeout, lines 96-100
CheckTimeout(s, t) ==
    IF TimedOut(s, t)
    THEN Outcome([s EXCEPT !.status = "IDLE", !.digit = None], <<>>, <<"Timeout">>)
    ELSE Outcome(s, <<>>, <<>>)

\* The keys ignored in WAIT_DIGIT, line 105
DigitNoise == { K_ctrl, K_rctrl, K_lctrl, K_c }

\* The keys ignored in WAIT_CHAR, with c among them as in WAIT_DIGIT
CharNoiseWithC == { K_ctrl, K_rctrl, K_lctrl, K_c }

\* The keys ignored in WAIT_CHAR, line 120
CharNoise == { K_ctrl, K_rctrl, K_lctrl }

\* The WAIT_DIGIT branch without the reset of line 117
WaitDigitLenient(s, event, t) ==
    IF event.name \in DigitNoise THEN Outcome(s, <<>>, <<>>)
    ELSE IF IsDigit(event.name)
         THEN Outcome([s EXCEPT !.digit = event.name,
                                !.status = "WAIT_CHAR",
                                !.last_time = t],
                      <<>>, <<"Digit received">>)
         ELSE Outcome(s, <<>>, <<"Invalid input">>)

\* The WAIT_DIGIT branch, lines 103-117
WaitDigit(s, event, t) ==
    IF event.name \in DigitNoise THEN Outcome(s, <<>>, <<>>)
    ELSE IF IsDigit(event.name)
         THEN Outcome([s EXCEPT !.digit = event.name,
                                !.status = "WAIT_CHAR",
                                !.last_time = t],
                      <<>>, <<"Digit received">>)
         ELSE Outcome([s EXCEPT !.status = "IDLE"], <<>>, <<"Invalid input">>)

\* potential_key without .lower()
PotentialKeyExact(s, event) == s.digit \o event.name

\* potential_key of line 126
PotentialKey(s, event) == s.digit \o Lower(event.name)

\* Lines 129-136: the call of copy_file_content, then the reset; an exception
\* leaving the call would leave the handler before the reset
CopyThenReset(s, filepath, readable) ==
    LET copy == copy_file_content(filepath, readable)
        done == [s EXCEPT !.status = "IDLE", !.digit = None]
    IN  [state  |-> IF copy.raised THEN s ELSE done,
         calls  |-> << filepath >>,
         prints |-> <<"Sequence complete">> \o copy.prints,
         sink   |-> copy.sink,
         raised |-> copy.raised]

\* The WAIT_CHAR branch without the test of lines 120-121
WaitCharNoNoise(s, event, readable) ==
    IF Len(event.name) = 1
    THEN LET potential_key == PotentialKey(s, event)
             done == [s EXCEPT !.status = "IDLE", !.digit = None]
         IN  IF potential_key \in DOMAIN s.mapping
             THEN CopyThenReset(s, s.mapping[potential_key], readable)
             ELSE Outcome(done, <<>>, <<"No match">>)
    ELSE Outcome([s EXCEPT !.status = "IDLE"], <<>>, <<"Invalid char">>)

\* The WAIT_CHAR branch, lines 119-139
WaitChar(s, event, readable) ==
    IF event.name \in CharNoise THEN Outcome(s, <<>>, <<>>)
    ELSE IF Len(event.name) = 1
         THEN LET potential_key == PotentialKey(s, event)
                  done == [s EXCEPT !.status = "IDLE", !.digit = None]
              IN  IF potential_key \in DOMAIN s.mapping
                  THEN CopyThenReset(s, s.mapping[potential_key], readable)
                  ELSE Outcome(done, <<>>, <<"No match">>)
         ELSE Outcome([s EXCEPT !.status = "IDLE"], <<>>, <<"Invalid char">>)

\* The state machine with the WAIT_DIGIT branch taken in IDLE too
DispatchFromIdle(s, event, t, readable) ==
    IF s.status = "WAIT_CHAR" THEN WaitChar(s, event, readable)
    ELSE WaitDigit(s, event, t)

\* The state machine of lines 102-139, after the timeout check
Dispatch(s, event, t, readable) ==
    IF s.status = "WAIT_DIGIT" THEN WaitDigit(s, event, t)
    ELSE IF s.status = "WAIT_CHAR" THEN WaitChar(s, event, readable)
    ELSE Outcome(s, <<>>, <<>>)

\* on_key_event without the test of lines 93-94
on_key_event_AnyType(s, event, t, readable) ==
    LET checked == CheckTimeout(s, t)
        out     == Dispatch(checked.state, event, t, readable)
    IN  [out EXCEPT !.prints = checked.prints \o out.prints]

\* on_key_event, lines 90-139.  readable: whether the file of the Code, if one
\* is looked up, can be read when copy_file_content opens it
on_key_event(s, event, t, readable) ==
    IF event.event_type # "down" THEN Outcome(s, <<>>, <<>>)
    ELSE LET checked == CheckTimeout(s, t)
             out     == Dispatch(checked.state, event, t, readable)
         IN  [out EXCEPT !.prints = checked.prints \o out.prints]

----------------------------------------------------------------------------
(* register_hotkeys *)

\* The hotkey name of line 164
TriggerName == <<"c","t","r","l","+","c">>

\* simultaneous_hotkey of lines 150-153: digit = key[0], char_part = key[1:]
HotkeyName(key) ==
    LET digit     == SubSeq(key, 1, 1)
        char_part == DropFirst(key, 1)
    IN  <<"c","t","r","l","+","c","+">> \o digit \o <<"+">> \o char_part

\* A binding add_hotkey holds: the callback is on_ctrl_c ("reset") or
\* copy_file_content(path) ("copy")
Binding(hotkey, action, path) == [hotkey |-> hotkey, action |-> action, path |-> path]

\* The loop of lines 148-158 with the try around the whole loop: the first
\* rejection ends it
RECURSIVE RegisterChordsAbort(_, _, _)
RegisterChordsAbort(m, keys, refused) ==
    IF keys = <<>> THEN {}
    ELSE IF HotkeyName(Head(keys)) \in refused THEN {}
         ELSE { Binding(HotkeyName(Head(keys)), "copy", m[Head(keys)]) }
              \cup RegisterChordsAbort(m, Tail(keys), refused)

\* The loop of lines 148-158 over mapping.items(): a rejected chord is logged
\* and skipped
RECURSIVE RegisterChords(_, _, _)
RegisterChords(m, keys, refused) ==
    IF keys = <<>> THEN {}
    ELSE (IF HotkeyName(Head(keys)) \in refused THEN {}
          ELSE { Binding(HotkeyName(Head(keys)), "copy", m[Head(keys)]) })
         \cup RegisterChords(m, Tail(keys), refused)

\* Lines 163-167
RegisterTrigger(refused) ==
    IF TriggerName \in refused THEN {}
    ELSE { Binding(TriggerName, "reset", <<>>) }

\* The names register_hotkeys hands to add_hotkey
Wanted(m) == { HotkeyName(k) : k \in DOMAIN m } \cup { TriggerName }

----------------------------------------------------------------------------
(* Observation: the latest event delivered, the time of its delivery and    *)
(* the status it found                                                      *)

Delivered(kind, name, t, from) ==
    [kind |-> kind, name |-> name, t |-> t, from |-> from]

NoEvent == Delivered("none", <<>>, 0, "IDLE")

\* The events delivered so far, read as a sequence in progress: nothing
\* ("none"), a trigger at time t ("trig"), or a trigger and then the numeral
\* d at time t, no more than TIMEOUT after the trigger ("digit").  Between
\* them only key-up events and the keys of the prefix: ctrl and c before the
\* numeral, ctrl after it.
Track(phase, t, d) == [phase |-> phase, t |-> t, d |-> d]

NoTrack == Track("none", 0, None)

TrackTrigger(t) == Track("trig", t, None)

TrackKey(tr, event, t) ==
    IF event.event_type # "down" THEN tr
    ELSE IF tr.phase = "trig"
         THEN IF event.name \in DigitNoise THEN tr
              ELSE IF IsDigit(event.name) /\ t - tr.t <= TIMEOUT
                   THEN Track("digit", t, event.name)
                   ELSE NoTrack
         ELSE IF tr.phase = "digit" /\ event.name \in CharNoise THEN tr
              ELSE NoTrack

\* The handlers in progress when on_ctrl_c and on_key_event are called from
\* two threads: the line each is at ("idle": not running), the event
\* on_key_event was called with and its local potential_key
Threads(tline, kline, event, potential_key) ==
    [tline |-> tline, kline |-> kline, event |-> event, key |-> potential_key]

NoThreads == Threads("idle", "idle", KeyEvent("up", K_enter), <<>>)

----------------------------------------------------------------------------
(* Actions *)

\* The trees the state machine is run on
SeqLayouts ==
    { { Entry(K_1, <<"1","a",".","t","x","t">>),
        Entry(K_1, <<"1","x",".","t","x","t">>),
        Entry(K_1, <<"2","a",".","t","x","t">>) },
      { Entry(K_1, <<"1","A",".","t","x","t">>) },
      { Entry(K_1, <<"1","a",".","t","x","t">>),
        Entry(K_1, <<"1","A",".","t","x","t">>) },
      { Entry(K_1, <<"1","c",".","t","x","t">>),
        Entry(<<"1","2">>, <<"1","2","a",".","t","x","t">>) } }

InitWith(layouts) ==
    /\ pc = "boot"
    /\ fs \in layouts
    /\ state = InitialState
    /\ now = 1
    /\ calls = <<>>
    /\ prints = <<>>
    /\ last = NoEvent
    /\ hotkeys = {}
    /\ hooked = FALSE
    /\ sink = <<>>
    /\ seqSink = <<>>
    /\ track = NoTrack
    /\ th = NoThreads

\* The names register_hotkeys hands to add_hotkey for a tree
WantedIn(tree) == Wanted(load_files_mapping(CHOOSE walk \in Walks(tree) : TRUE))

\* What the hotkey facility refuses in the runs of the state machine: nothing,
\* the chord of 1a, or the trigger
SeqRefusals(tree) ==
    { {}, { HotkeyName(<<"1","a">>) } \cap WantedIn(tree), { TriggerName } }

Init == InitWith(SeqLayouts) /\ rejected \in SeqRefusals(fs)

InitIndex == InitWith(AllLayouts) /\ rejected = {}

\* The trees registration is run on: those over the directories 1 and 12 and
\* the files 1a.txt, 1x.txt and 12a.txt
RegisterLayouts ==
    { S \in AllLayouts :
        \A e \in S : /\ e.dir \in { K_1, <<"1","2">> }
                     /\ e.file \in { <<"1","a",".","t","x","t">>,
                                      <<"1","x",".","t","x","t">>,
                                      <<"1","2","a",".","t","x","t">> } }

\* The hotkey facility refuses any subset of the names it is handed
InitRegister == InitWith(RegisterLayouts) /\ rejected \in SUBSET WantedIn(fs)

\* register_hotkeys, lines 141-170.  The walk is the order of os.listdir and
\* glob, keys the order of mapping.items().
RegisterHotkeys ==
    /\ pc = "boot"
    /\ \E walk \in Walks(fs) :
          LET m == load_files_mapping(walk)
          IN  /\ state' = [state EXCEPT !.mapping = m]
              /\ \E keys \in Walks(DOMAIN m) :
                    hotkeys' = RegisterChords(m, keys, rejected)
                                  \cup RegisterTrigger(rejected)
    /\ hooked' = TRUE
    /\ pc' = "run"
    /\ calls' = <<>>
    /\ prints' = <<>>
    /\ sink' = <<>>
    /\ UNCHANGED <<fs, now, last, rejected, seqSink, track, th>>

\* The ctrl+c hotkey calls on_ctrl_c
CtrlC ==
    /\ pc = "run"
    /\ \E h \in hotkeys : h.action = "reset"
    /\ LET out == on_ctrl_c(state, now)
       IN  /\ state' = out.state
           /\ calls' = out.calls
           /\ prints' = out.prints
           /\ sink' = out.sink
           /\ seqSink' = out.sink
    /\ last' = Delivered("trigger", <<>>, now, state.status)
    /\ track' = TrackTrigger(now)
    /\ UNCHANGED <<pc, fs, now, hotkeys, rejected, hooked, th>>

\* The hook calls on_key_event(event); whether the file can be read is a
\* choice only where a file is opened
Key ==
    /\ pc = "run"
    /\ hooked
    /\ \E event \in KeyEvents, readable \in BOOLEAN :
          LET out == on_key_event(state, event, now, readable)
          IN  /\ out.calls = <<>> => readable
              /\ state' = out.state
              /\ calls' = out.calls
              /\ prints' = out.prints
              /\ sink' = out.sink
              /\ seqSink' = out.sink
              /\ last' = Delivered(event.event_type, event.name, now, state.status)
              /\ track' = TrackKey(track, event, now)
    /\ UNCHANGED <<pc, fs, now, hotkeys, rejected, hooked, th>>

\* A chord callback that also ends the sequence in progress
ChordEndsSequence ==
    /\ pc = "run"
    /\ \E h \in hotkeys, readable \in BOOLEAN :
          /\ h.action = "copy"
          /\ LET copy == copy_file_content(h.path, readable)
             IN  /\ calls' = << h.path >>
                 /\ prints' = copy.prints
                 /\ sink' = copy.sink
          /\ last' = Delivered("chord", h.hotkey, now, state.status)
    /\ state' = [state EXCEPT !.status = "IDLE", !.digit = None]
    /\ UNCHANGED <<pc, fs, now, hotkeys, rejected, hooked, seqSink, track, th>>

\* A chord hotkey calls its lambda, copy_file_content(path), lines 153-155
Chord ==
    /\ pc = "run"
    /\ \E h \in hotkeys, readable \in BOOLEAN :
          /\ h.action = "copy"
          /\ LET copy == copy_file_content(h.path, readable)
             IN  /\ calls' = << h.path >>
                 /\ prints' = copy.prints
                 /\ sink' = copy.sink
          /\ last' = Delivered("chord", h.hotkey, now, state.status)
    /\ UNCHANGED <<pc, fs, state, now, hotkeys, rejected, hooked, seqSink, track, th>>

\* Time passes; nothing of the program runs
Tick ==
    /\ now < MaxTime
    /\ now' = now + 1
    /\ calls' = <<>>
    /\ prints' = <<>>
    /\ sink' = <<>>
    /\ UNCHANGED <<pc, fs, state, last, hotkeys, rejected, hooked, seqSink, track, th>>

Next == RegisterHotkeys \/ CtrlC \/ Key \/ Chord \/ Tick

Spec == Init /\ [][Next]_vars

\* The tree the two-thread runs use
ThreadLayouts ==
    { { Entry(K_1, <<"1","a",".","t","x","t">>),
        Entry(K_1, <<"1","x",".","t","x","t">>),
        Entry(K_1, <<"2","a",".","t","x","t">>) } }

InitThreads == InitWith(ThreadLayouts) /\ rejected = {}

\* A step of a thread leaves everything but the state dict and th
ThreadFrame ==
    UNCHANGED <<pc, fs, now, calls, prints, last, hotkeys, rejected, hooked,
                sink, seqSink, track>>

\* on_ctrl_c on its thread, one assignment a step: lines 85, 86, 87
ThreadCtrlC ==
    /\ pc = "run"
    /\ \/ /\ th.tline = "idle"
          /\ \E h \in hotkeys : h.action = "reset"
          /\ th' = [th EXCEPT !.tline = "85"]
          /\ state' = state
       \/ /\ th.tline = "85"
          /\ state' = [state EXCEPT !.status = "WAIT_DIGIT"]
          /\ th' = [th EXCEPT !.tline = "86"]
       \/ /\ th.tline = "86"
          /\ state' = [state EXCEPT !.last_time = now]
          /\ th' = [th EXCEPT !.tline = "87"]
       \/ /\ th.tline = "87"
          /\ state' = [state EXCEPT !.digit = None]
          /\ th' = [th EXCEPT !.tline = "idle"]
    /\ ThreadFrame

\* on_key_event is called on the hook's thread: lines 90-94
ThreadKeyEnter ==
    /\ pc = "run"
    /\ hooked
    /\ th.kline = "idle"
    /\ \E event \in KeyEvents :
          th' = [th EXCEPT !.event = event,
                           !.key = <<>>,
                           !.kline = IF event.event_type # "down" THEN "idle" ELSE "97"]
    /\ state' = state
    /\ ThreadFrame

\* The timeout check, lines 97-100: the test, then one assignment a step
ThreadKeyTimeout ==
    /\ pc = "run"
    /\ \/ /\ th.kline = "97"
          /\ th' = [th EXCEPT !.kline = IF TimedOut(state, now) THEN "99" ELSE "103"]
          /\ state' = state
       \/ /\ th.kline = "99"
          /\ state' = [state EXCEPT !.status = "IDLE"]
          /\ th' = [th EXCEPT !.kline = "100"]
       \/ /\ th.kline = "100"
          /\ state' = [state EXCEPT !.digit = None]
          /\ th' = [th EXCEPT !.kline = "103"]
    /\ ThreadFrame

\* The tests of lines 103 and 119, each reading state['status']
ThreadKeyBranch ==
    /\ pc = "run"
    /\ \/ /\ th.kline = "103"
          /\ th' = [th EXCEPT !.kline = IF state.status = "WAIT_DIGIT"
                                        THEN "105" ELSE "119"]
       \/ /\ th.kline = "119"
          /\ th' = [th EXCEPT !.kline = IF state.status = "WAIT_CHAR"
                                        THEN "120" ELSE "idle"]
    /\ state' = state
    /\ ThreadFrame

\* The WAIT_DIGIT branch, lines 105-117, one assignment a step
ThreadKeyDigit ==
    /\ pc = "run"
    /\ \/ /\ th.kline = "105"
          /\ th' = [th EXCEPT !.kline = IF th.event.name \in DigitNoise THEN "idle"
                                        ELSE IF IsDigit(th.event.name) THEN "109"
                                        ELSE "117"]
          /\ state' = state
       \/ /\ th.kline = "109"
          /\ state' = [state EXCEPT !.digit = th.event.name]
          /\ th' = [th EXCEPT !.kline = "110"]
       \/ /\ th.kline = "110"
          /\ state' = [state EXCEPT !.status = "WAIT_CHAR"]
          /\ th' = [th EXCEPT !.kline = "111"]
       \/ /\ th.kline = "111"
          /\ state' = [state EXCEPT !.last_time = now]
          /\ th' = [th EXCEPT !.kline = "idle"]
       \/ /\ th.kline = "117"
          /\ state' = [state EXCEPT !.status = "IDLE"]
          /\ th' = [th EXCEPT !.kline = "idle"]
    /\ ThreadFrame

\* The WAIT_CHAR branch up to the lookup, lines 120-126 and 139
ThreadKeyChar ==
    /\ pc = "run"
    /\ \/ /\ th.kline = "120"
          /\ th' = [th EXCEPT !.kline = IF th.event.name \in CharNoise THEN "idle"
                                        ELSE IF Len(th.event.name) = 1 THEN "126"
                                        ELSE "139"]
          /\ state' = state
       \/ /\ th.kline = "126"
          /\ th' = [th EXCEPT !.key = PotentialKey(state, th.event), !.kline = "128"]
          /\ state' = state
       \/ /\ th.kline = "139"
          /\ state' = [state EXCEPT !.status = "IDLE"]
          /\ th' = [th EXCEPT !.kline = "idle"]
    /\ ThreadFrame

\* The lookup and the call of copy_file_content, lines 128-133
ThreadKeyLookup ==
    /\ pc = "run"
    /\ th.kline = "128"
    /\ IF th.key \in DOMAIN state.mapping
       THEN \E readable \in BOOLEAN :
               LET copy == copy_file_content(state.mapping[th.key], readable)
               IN  /\ calls' = << state.mapping[th.key] >>
                   /\ prints' = <<"Sequence complete">> \o copy.prints
                   /\ sink' = copy.sink
       ELSE /\ calls' = <<>>
            /\ prints' = <<"No match">>
            /\ sink' = <<>>
    /\ th' = [th EXCEPT !.kline = "135"]
    /\ UNCHANGED <<pc, fs, state, now, last, hotkeys, rejected, hooked, seqSink, track>>

\* The reset of lines 135-136, one assignment a step
ThreadKeyReset ==
    /\ pc = "run"
    /\ \/ /\ th.kline = "135"
          /\ state' = [state EXCEPT !.status = "IDLE"]
          /\ th' = [th EXCEPT !.kline = "136"]
       \/ /\ th.kline = "136"
          /\ state' = [state EXCEPT !.digit = None]
          /\ th' = [th EXCEPT !.kline = "idle"]
    /\ ThreadFrame

\* Time passes between handlers, not within one
ThreadTick ==
    /\ th.tline = "idle"
    /\ th.kline = "idle"
    /\ Tick

NextThreads ==
    \/ RegisterHotkeys
    \/ ThreadCtrlC
    \/ ThreadKeyEnter
    \/ ThreadKeyTimeout
    \/ ThreadKeyBranch
    \/ ThreadKeyDigit
    \/ ThreadKeyChar
    \/ ThreadKeyLookup
    \/ ThreadKeyReset
    \/ ThreadTick

\* on_ctrl_c and on_key_event called from two threads, with nothing in the
\* code to keep one out while the other runs
SpecThreads == InitThreads /\ [][NextThreads]_vars

NextIndex == RegisterHotkeys

SpecIndex == InitIndex /\ [][NextIndex]_vars

NextRegister == RegisterHotkeys

SpecRegister == InitRegister /\ [][NextRegister]_vars

----------------------------------------------------------------------------
(* Vocabulary of the properties *)

\* The step delivers an event of this kind to its handler
Handles(kind) == pc = "run" /\ now' = now /\ last'.kind = kind

\* The step delivers this key event to on_key_event
HandlesKey(type, name) == Handles(type) /\ last'.name = name

\* The step delivers some key event, down or up
HandlesAnyKey == Handles("down") \/ Handles("up")

\* The keys that are one numeral, and the keys whose name is one character
Numerals == { k \in KeyNames : Len(k) = 1 /\ k[1] \in DigitChars }

SingleChars == { k \in KeyNames : Len(k) = 1 }

\* Seconds since the stored timestamp
Elapsed == now - state.last_time

\* A file the index is to hold, stated on the tree: a .txt file of an
\* all-digit directory whose base name is the directory name and more
TxtBase(f) == SubSeq(f, 1, Len(f) - Len(<<".","t","x","t">>))

Indexable(e) ==
    /\ e.dir # <<>>
    /\ \A i \in DOMAIN e.dir : e.dir[i] \in DigitChars
    /\ Len(e.file) > Len(<<".","t","x","t">>)
    /\ SubSeq(e.file, Len(TxtBase(e.file)) + 1, Len(e.file)) = <<".","t","x","t">>
    /\ Len(TxtBase(e.file)) > Len(e.dir)
    /\ \A i \in DOMAIN e.dir : TxtBase(e.file)[i] = e.dir[i]

\* Its Code: the directory name, then the rest of the base name in lower case
CodeOf(e) ==
    e.dir \o [i \in 1..(Len(TxtBase(e.file)) - Len(e.dir)) |->
                 LowerChar(TxtBase(e.file)[Len(e.dir) + i])]

PathOf(e) == <<e.dir, e.file>>

Path_1a == << K_1, <<"1","a",".","t","x","t">> >>

Path_1A == << K_1, <<"1","A",".","t","x","t">> >>

----------------------------------------------------------------------------
(* C1: happy path.  From IDLE the reset trigger leaves WAIT_DIGIT; a        *)
(* key-down of a numeral d that follows the trigger within TIMEOUT leaves   *)
(* WAIT_CHAR with pending digit d; a key-down of a single character c that  *)
(* follows the accepted digit within TIMEOUT, with Code d+lower(c) in the   *)
(* mapping, calls copy_file_content exactly once, with that Code's path,    *)
(* and leaves IDLE with no pending digit.                                   *)
HappyPath ==
    [][ /\ (Handles("trigger") /\ state.status = "IDLE")
            => state'.status = "WAIT_DIGIT"
        /\ \A d \in Numerals :
              (/\ last.kind = "trigger"
               /\ now - last.t <= TIMEOUT
               /\ HandlesKey("down", d))
              => (state'.status = "WAIT_CHAR" /\ state'.digit = d)
        /\ \A d \in Numerals, c \in SingleChars :
              (/\ last.kind = "down" /\ last.name = d /\ last.from = "WAIT_DIGIT"
               /\ state.status = "WAIT_CHAR"
               /\ now - last.t <= TIMEOUT
               /\ HandlesKey("down", c)
               /\ (d \o Lower(c)) \in DOMAIN state.mapping)
              => (/\ calls' = << state.mapping[d \o Lower(c)] >>
                  /\ state'.status = "IDLE"
                  /\ state'.digit = None)
      ]_vars

\* The char key `a` has completed the sequence 1, a: 1a.txt was dispatched
HappyPathWitness ==
    /\ last.kind = "down" /\ last.name = K_a /\ last.from = "WAIT_CHAR"
    /\ calls = << Path_1a >>
    /\ prints = << "Sequence complete", "Copied content" >>
    /\ state.status = "IDLE" /\ state.digit = None

----------------------------------------------------------------------------
(* C2: a WAIT_CHAR attempt is one-shot.  Every key-down within TIMEOUT in   *)
(* WAIT_CHAR whose key is not ctrl / left ctrl / right ctrl leaves IDLE     *)
(* with the pending digit cleared: one dispatch on a hit, none on a miss,   *)
(* none for a key whose name is not one character.                          *)
OneShot ==
    [][ \A k \in KeyNames \ { K_ctrl, K_lctrl, K_rctrl } :
           (/\ state.status = "WAIT_CHAR"
            /\ Elapsed <= TIMEOUT
            /\ HandlesKey("down", k))
           => (/\ state'.status = "IDLE"
               /\ state'.digit = None
               /\ calls' = IF Len(k) = 1 /\ (state.digit \o Lower(k)) \in DOMAIN state.mapping
                           THEN << state.mapping[state.digit \o Lower(k)] >>
                           ELSE <<>>)
      ]_vars

----------------------------------------------------------------------------
(* C3: the timeout scenario.  The reset trigger fires, no key arrives for   *)
(* more than TIMEOUT, then the key-down of `1` arrives.                     *)

\* As stated: the key is processed fresh and leaves WAIT_CHAR with pending
\* digit 1.
TimeoutScenarioAsStated ==
    [][ (/\ last.kind = "trigger"
         /\ now - last.t > TIMEOUT
         /\ HandlesKey("down", K_1))
        => (state'.status = "WAIT_CHAR" /\ state'.digit = K_1)
      ]_vars

\* C3 as amended: the timeout check forces IDLE before the key is evaluated,
\* and the key, evaluated in IDLE, causes no transition: the status stays
\* IDLE with no pending digit, nothing is dispatched, and nothing is printed
\* but the timeout message.
TimeoutScenario ==
    [][ (/\ last.kind = "trigger"
         /\ now - last.t > TIMEOUT
         /\ HandlesKey("down", K_1))
        => (/\ prints' = << "Timeout" >>
            /\ state'.status = "IDLE"
            /\ state'.digit = None
            /\ calls' = <<>>)
      ]_vars

\* The key `1` found the stale WAIT_DIGIT more than TIMEOUT after the trigger
TimeoutScenarioWitness ==
    /\ last.kind = "down" /\ last.name = K_1 /\ last.from = "WAIT_DIGIT"
    /\ last.t - state.last_time > TIMEOUT
    /\ prints = << "Timeout" >>
    /\ state.status = "IDLE"

----------------------------------------------------------------------------
(* C4: the timeout check.  A key-down received in WAIT_DIGIT or WAIT_CHAR   *)
(* more than TIMEOUT after the stored timestamp leaves IDLE with the        *)
(* pending digit cleared, advances nothing and dispatches nothing; at       *)
(* TIMEOUT or less it is evaluated in the current status.  The timestamp    *)
(* is that of the last accepted transition: the trigger stamps it, an       *)
(* accepted digit stamps it, and no other event changes it.                 *)
TimeoutCheck ==
    [][ /\ \A k \in KeyNames :
              (HandlesKey("down", k) /\ state.status # "IDLE")
              => IF Elapsed > TIMEOUT
                 THEN /\ state'.status = "IDLE"
                      /\ state'.digit = None
                      /\ calls' = <<>>
                      /\ state'.last_time = state.last_time
                 ELSE /\ "Timeout" \notin { prints'[i] : i \in DOMAIN prints' }
                      /\ (state.status = "WAIT_DIGIT" /\ k \in Numerals)
                            => (/\ state'.status = "WAIT_CHAR"
                                /\ state'.digit = k
                                /\ state'.last_time = now)
                      /\ (/\ state.status = "WAIT_CHAR"
                          /\ k \in SingleChars
                          /\ (state.digit \o Lower(k)) \in DOMAIN state.mapping)
                            => calls' = << state.mapping[state.digit \o Lower(k)] >>
        /\ Handles("trigger") => state'.last_time = now
        /\ (HandlesAnyKey /\ ~(state.status = "WAIT_DIGIT" /\ state'.status = "WAIT_CHAR"))
              => state'.last_time = state.last_time
      ]_vars

\* A character that would have completed a mapped Code arrived one second
\* past TIMEOUT after the digit, and was not dispatched
TimeoutCheckWitness ==
    /\ last.kind = "down" /\ last.from = "WAIT_CHAR" /\ last.name \in SingleChars
    /\ last.t - state.last_time = TIMEOUT + 1
    /\ (K_1 \o Lower(last.name)) \in DOMAIN state.mapping
    /\ prints = << "Timeout" >>
    /\ calls = <<>>
    /\ state.status = "IDLE" /\ state.digit = None

----------------------------------------------------------------------------
(* C5: lazy timeout.  The passage of time alone, and any key-up event,      *)
(* leave status, pending digit and timestamp exactly as they were, and      *)
(* dispatch nothing, however long past TIMEOUT.                             *)
LazyTimeout ==
    [][ (now' # now \/ Handles("up")) => (state' = state /\ calls' = <<>>) ]_vars

\* A key-up has arrived past TIMEOUT and the stale status is still held
LazyTimeoutWitness ==
    /\ last.kind = "up" /\ last.t = now
    /\ state.status \in {"WAIT_DIGIT", "WAIT_CHAR"}
    /\ Elapsed > TIMEOUT

----------------------------------------------------------------------------
(* C6: in every reachable state a pending digit is present only in          *)
(* WAIT_CHAR, and in WAIT_CHAR the pending digit is a numeral.              *)
PendingDigitOnlyInWaitChar ==
    /\ state.status \in {"IDLE", "WAIT_DIGIT"} => state.digit = None
    /\ state.status = "WAIT_CHAR" => state.digit \in Numerals

----------------------------------------------------------------------------
(* C7: the reset trigger is the sole entry into WAIT_DIGIT.  No key event   *)
(* changes the status from IDLE or WAIT_CHAR to WAIT_DIGIT; the trigger,    *)
(* from any status, leaves WAIT_DIGIT, no pending digit, and the timestamp  *)
(* set to the current time.                                                 *)
SoleEntry ==
    [][ /\ (HandlesAnyKey /\ state.status \in {"IDLE", "WAIT_CHAR"})
            => state'.status # "WAIT_DIGIT"
        /\ Handles("trigger")
            => (/\ state'.status = "WAIT_DIGIT"
                /\ state'.digit = None
                /\ state'.last_time = now)
      ]_vars

\* The trigger has fired in WAIT_CHAR, where a digit was pending
SoleEntryWitness ==
    /\ last.kind = "trigger" /\ last.from = "WAIT_CHAR" /\ last.t = now
    /\ state.status = "WAIT_DIGIT" /\ state.digit = None /\ state.last_time = now

----------------------------------------------------------------------------
(* C8: invalid digit.  In WAIT_DIGIT within TIMEOUT a key-down that is      *)
(* neither a numeral nor ctrl, left ctrl, right ctrl or c leaves IDLE (in   *)
(* one step, never WAIT_CHAR) and dispatches nothing; and in IDLE no key    *)
(* event, a numeral included, leaves IDLE or dispatches, so a numeral is    *)
(* accepted again only after the trigger.                                   *)
InvalidDigit ==
    [][ /\ \A k \in KeyNames \ ({ K_ctrl, K_lctrl, K_rctrl, K_c } \cup Numerals) :
              (/\ state.status = "WAIT_DIGIT"
               /\ Elapsed <= TIMEOUT
               /\ HandlesKey("down", k))
              => (state'.status = "IDLE" /\ calls' = <<>>)
        /\ (HandlesAnyKey /\ state.status = "IDLE")
              => (state'.status = "IDLE" /\ calls' = <<>>)
      ]_vars

\* A letter has abandoned a sequence that was waiting for its digit
InvalidDigitWitness ==
    /\ last.kind = "down" /\ last.name = K_a /\ last.from = "WAIT_DIGIT"
    /\ last.t - state.last_time <= TIMEOUT
    /\ prints = << "Invalid input" >>
    /\ state.status = "IDLE"

----------------------------------------------------------------------------
(* C9: case normalization end to end.  Every Code of the index is in lower  *)
(* case and every indexable file, whatever the case of its name, is         *)
(* registered under its lowercased Code; and in WAIT_CHAR with pending      *)
(* digit d a key-down of a single character c, in either case, dispatches   *)
(* a file of the tree whose Code is d+lower(c), or nothing if there is      *)
(* none.                                                                    *)
CaseNormalization ==
    [][ /\ pc' = "run"
            => (/\ \A k \in DOMAIN state'.mapping : Lower(k) = k
                /\ \A e \in fs : Indexable(e) => CodeOf(e) \in DOMAIN state'.mapping)
        /\ \A c \in SingleChars :
              (/\ state.status = "WAIT_CHAR"
               /\ Elapsed <= TIMEOUT
               /\ HandlesKey("down", c))
              => LET hits == { e \in fs : Indexable(e)
                                          /\ CodeOf(e) = state.digit \o Lower(c) }
                 IN  IF hits = {} THEN calls' = <<>>
                     ELSE \E e \in hits : calls' = << PathOf(e) >>
      ]_vars

\* The key `A` has dispatched the only file of the tree, 1A.txt
CaseNormalizationWitness ==
    /\ fs = { Entry(K_1, <<"1","A",".","t","x","t">>) }
    /\ last.kind = "down" /\ last.name = K_A /\ last.from = "WAIT_CHAR"
    /\ calls = << Path_1A >>

----------------------------------------------------------------------------
(* C10: indexing correctness.  For every tree, the mapping built by         *)
(* load_files_mapping holds exactly the Codes dir+lower(rest) of the .txt   *)
(* files in all-digit directories whose base name starts with the           *)
(* directory name and has a non-empty rest; each Code maps to the path of   *)
(* a file it is the Code of.                                                *)
IndexingCorrectness ==
    pc = "run" =>
        /\ DOMAIN state.mapping = { CodeOf(e) : e \in { x \in fs : Indexable(x) } }
        /\ \A k \in DOMAIN state.mapping :
              \E e \in fs : Indexable(e) /\ CodeOf(e) = k /\ state.mapping[k] = PathOf(e)

\* 1/ holds 1a.txt, 1x.txt and 2a.txt: the index is 1a and 1x
IndexingCorrectnessWitness ==
    /\ pc = "run"
    /\ fs = { Entry(K_1, <<"1","a",".","t","x","t">>),
              Entry(K_1, <<"1","x",".","t","x","t">>),
              Entry(K_1, <<"2","a",".","t","x","t">>) }
    /\ DOMAIN state.mapping = { <<"1","a">>, <<"1","x">> }
    /\ state.mapping[<<"1","a">>] = Path_1a

----------------------------------------------------------------------------
(* Vocabulary of the registration claims *)

\* The directory that owns the file a Code is mapped to
OwnerOf(k) == state.mapping[k][1]

\* The chord of a Code whose digit part is the owning directory name and
\* whose char part is the rest of the Code
ChordOfParts(k) ==
    <<"c","t","r","l","+","c","+">> \o OwnerOf(k) \o <<"+">>
        \o DropFirst(k, Len(OwnerOf(k)))

----------------------------------------------------------------------------
(* C11: Code shape.  For every tree the index accepts, every Code of the    *)
(* index is one numeral followed by one letter, so that the trigger, one    *)
(* digit key and one character key can produce it.                          *)
CodeShape ==
    pc = "run" =>
        \A k \in DOMAIN state.mapping :
            /\ Len(k) = 2
            /\ k[1] \in DigitChars
            /\ \E i \in DOMAIN LowerChars : k[2] = LowerChars[i]

----------------------------------------------------------------------------
(* C12: chord format.  For every Code of the index the chord handed to the  *)
(* hotkey facility is ctrl+c+<digit>+<char>, <digit> being the name of the  *)
(* directory that owns the Code's file and <char> the rest of the Code,     *)
(* bound to copying that file; the one other binding is ctrl+c, bound to    *)
(* the reset.                                                               *)
ChordFormat ==
    pc = "run" =>
        /\ \A k \in DOMAIN state.mapping :
              HotkeyName(k) \notin rejected
                  => Binding(ChordOfParts(k), "copy", state.mapping[k]) \in hotkeys
        /\ \A h \in hotkeys :
              \/ h = Binding(TriggerName, "reset", <<>>)
              \/ \E k \in DOMAIN state.mapping :
                    h = Binding(ChordOfParts(k), "copy", state.mapping[k])
        /\ TriggerName \notin rejected
              => Binding(TriggerName, "reset", <<>>) \in hotkeys

----------------------------------------------------------------------------
(* C13: registration failures are isolated.  Whatever subset of the names   *)
(* the hotkey facility rejects, every chord it did not reject is bound to   *)
(* copying its Code's file, the reset trigger is bound unless it was        *)
(* rejected itself, nothing rejected is bound, and the raw key hook is      *)
(* installed in every case.                                                 *)
RegistrationIsolated ==
    pc = "run" =>
        /\ hooked
        /\ \A k \in DOMAIN state.mapping :
              HotkeyName(k) \notin rejected
                  => Binding(HotkeyName(k), "copy", state.mapping[k]) \in hotkeys
        /\ TriggerName \notin rejected
              => Binding(TriggerName, "reset", <<>>) \in hotkeys
        /\ \A h \in hotkeys : h.hotkey \notin rejected

\* The chord of 1a was rejected: the chord of 1x and the trigger are bound
\* and the hook is installed
RegistrationIsolatedWitness ==
    /\ pc = "run"
    /\ DOMAIN state.mapping = { <<"1","a">>, <<"1","x">> }
    /\ rejected = { HotkeyName(<<"1","a">>) }
    /\ Binding(HotkeyName(<<"1","x">>), "copy", state.mapping[<<"1","x">>]) \in hotkeys
    /\ Binding(TriggerName, "reset", <<>>) \in hotkeys
    /\ hooked

----------------------------------------------------------------------------
(* C14: dispatch errors are swallowed.  A key-down that completes a mapped  *)
(* Code calls copy_file_content once for the Code's file; the sink is       *)
(* handed the file's text or, when the file cannot be read, nothing, with   *)
(* the failure logged; either way the handler goes on to status IDLE with   *)
(* the digit cleared.  A chord callback makes its one call the same way and *)
(* leaves the Sequence State alone.                                         *)
DispatchErrorsSwallowed ==
    [][ /\ \A c \in SingleChars :
              (/\ state.status = "WAIT_CHAR"
               /\ Elapsed <= TIMEOUT
               /\ HandlesKey("down", c)
               /\ state.digit \o Lower(c) \in DOMAIN state.mapping)
              => LET path == state.mapping[state.digit \o Lower(c)]
                 IN  /\ calls' = << path >>
                     /\ \/ sink' = << Content(path) >>
                        \/ /\ sink' = <<>>
                           /\ prints' = << "Sequence complete", "Failed to copy" >>
                     /\ state'.status = "IDLE"
                     /\ state'.digit = None
        /\ Handles("chord")
              => /\ Len(calls') = 1
                 /\ \/ sink' = << Content(calls'[1]) >>
                    \/ sink' = <<>> /\ prints' = << "Failed to copy" >>
                 /\ state' = state
      ]_vars

\* The key `a` completed the Code 1a, 1a.txt could not be read: one call,
\* nothing in the sink, status IDLE, digit cleared
DispatchErrorsSwallowedWitness ==
    /\ last.kind = "down" /\ last.name = K_a /\ last.from = "WAIT_CHAR"
    /\ calls = << Path_1a >>
    /\ sink = <<>>
    /\ prints = << "Sequence complete", "Failed to copy" >>
    /\ state.status = "IDLE"
    /\ state.digit = None

----------------------------------------------------------------------------
(* C15: the chord path and the sequence path are independent and not        *)
(* deduplicated.  A chord callback calls copy_file_content for its file and *)
(* leaves the Sequence State as it was; its delivery does not depend on     *)
(* what the state machine delivered before it, and a key-down completing a  *)
(* mapped Code right after a chord callback dispatches all the same.  So    *)
(* ctrl, c, d and the char held together give two deliveries of one text.   *)
ChordIndependent ==
    [][ /\ Handles("chord")
              => /\ state' = state
                 /\ \E h \in hotkeys :
                       /\ h.action = "copy"
                       /\ last'.name = h.hotkey
                       /\ calls' = << h.path >>
                       /\ \/ sink' = << Content(h.path) >>
                          \/ sink' = <<>> /\ prints' = << "Failed to copy" >>
        /\ \A c \in SingleChars :
              (/\ last.kind = "chord"
               /\ state.status = "WAIT_CHAR"
               /\ Elapsed <= TIMEOUT
               /\ HandlesKey("down", c)
               /\ state.digit \o Lower(c) \in DOMAIN state.mapping)
              => LET path == state.mapping[state.digit \o Lower(c)]
                 IN  /\ calls' = << path >>
                     /\ \/ sink' = << Content(path) >>
                        \/ sink' = <<>> /\ "Failed to copy" = prints'[Len(prints')]
      ]_vars

\* The key `a` completed the Code 1a and the text of 1a.txt went to the sink;
\* right after it, at the same time, the chord ctrl+c+1+a put it there again
ChordIndependentWitness ==
    /\ seqSink = << Content(Path_1a) >>
    /\ track = NoTrack
    /\ last.kind = "chord"
    /\ last.name = HotkeyName(<<"1","a">>)
    /\ last.from = "IDLE"
    /\ state.status = "IDLE"
    /\ sink = << Content(Path_1a) >>

----------------------------------------------------------------------------
(* C16: prefix-key noise.  Within the timeout, a key-down of ctrl, left     *)
(* ctrl, right ctrl or c in WAIT_DIGIT, and of ctrl, left ctrl or right     *)
(* ctrl in WAIT_CHAR, leaves status, pending digit and timestamp as they    *)
(* were and dispatches nothing.                                             *)
PrefixNoiseFrame ==
    [][ /\ \A k \in { K_ctrl, K_lctrl, K_rctrl, K_c } :
              (/\ state.status = "WAIT_DIGIT"
               /\ Elapsed <= TIMEOUT
               /\ HandlesKey("down", k))
              => state' = state /\ calls' = <<>> /\ sink' = <<>>
        /\ \A k \in { K_ctrl, K_lctrl, K_rctrl } :
              (/\ state.status = "WAIT_CHAR"
               /\ Elapsed <= TIMEOUT
               /\ HandlesKey("down", k))
              => state' = state /\ calls' = <<>> /\ sink' = <<>>
      ]_vars

\* `left ctrl` went down two seconds into WAIT_CHAR: still WAIT_CHAR, digit 1,
\* the timestamp that of the digit
PrefixNoiseFrameWitness ==
    /\ last.kind = "down" /\ last.name = K_lctrl /\ last.from = "WAIT_CHAR"
    /\ state.status = "WAIT_CHAR"
    /\ state.digit = K_1
    /\ last.t = state.last_time + 2
    /\ now = last.t

----------------------------------------------------------------------------
(* C17: IDLE.  A key-down delivered in IDLE leaves status, pending digit    *)
(* and timestamp as they were and dispatches nothing; the only step that    *)
(* takes the status out of IDLE is the reset trigger.                       *)
IdleFrame ==
    [][ /\ (state.status = "IDLE" /\ \E k \in KeyNames : HandlesKey("down", k))
              => state' = state /\ calls' = <<>> /\ sink' = <<>>
        /\ (state.status = "IDLE" /\ state'.status # "IDLE")
              => Handles("trigger") /\ state'.status = "WAIT_DIGIT"
      ]_vars

\* The key `1` went down in IDLE: still IDLE, nothing dispatched
IdleFrameWitness ==
    /\ last.kind = "down" /\ last.name = K_1 /\ last.from = "IDLE"
    /\ state.status = "IDLE"
    /\ state.digit = None
    /\ calls = <<>>
    /\ now = last.t

----------------------------------------------------------------------------
(* C19: the trigger chord pressed again in WAIT_CHAR.  One press of ctrl+c  *)
(* delivers the reset trigger and the key-down of `c`, one after the other. *)

Path_1c == << K_1, <<"1","c",".","t","x","t">> >>

\* Trigger first: the key-down of `c` then finds WAIT_DIGIT and is ignored
TriggerThenC ==
    (/\ last.kind = "trigger"
     /\ last.from = "WAIT_CHAR"
     /\ Elapsed <= TIMEOUT
     /\ HandlesKey("down", K_c))
    => /\ state.status = "WAIT_DIGIT"
       /\ state.digit = None
       /\ state' = state
       /\ calls' = <<>>

\* Key-down first, second half: the trigger that follows it ends in WAIT_DIGIT
\* with no pending digit and dispatches nothing
CThenTrigger ==
    (/\ last.kind = "down"
     /\ last.name = K_c
     /\ last.from = "WAIT_CHAR"
     /\ Handles("trigger"))
    => /\ state'.status = "WAIT_DIGIT"
       /\ state'.digit = None
       /\ calls' = <<>>

(* C19 as stated: in either order the press ends in WAIT_DIGIT with no      *)
(* pending digit and no file is dispatched, also when the Code d+c is in    *)
(* the index.                                                               *)
RepressAsStated ==
    [][ /\ TriggerThenC
        /\ CThenTrigger
        /\ (state.status = "WAIT_CHAR" /\ HandlesKey("down", K_c))
              => calls' = <<>>
      ]_vars

(* C19, amended: in either order the press ends in WAIT_DIGIT with no       *)
(* pending digit.  With the trigger first nothing is dispatched.  With the  *)
(* key-down first, `c` is taken as the character of the sequence: within    *)
(* the timeout the file of the Code d+c, if the index has it, is dispatched *)
(* once, and the status is IDLE until the trigger arrives.                  *)
RepressRestarts ==
    [][ /\ TriggerThenC
        /\ CThenTrigger
        /\ (state.status = "WAIT_CHAR" /\ HandlesKey("down", K_c))
              => /\ state'.status = "IDLE"
                 /\ state'.digit = None
                 /\ IF Elapsed <= TIMEOUT /\ state.digit \o K_c \in DOMAIN state.mapping
                    THEN calls' = << state.mapping[state.digit \o K_c] >>
                    ELSE calls' = <<>>
      ]_vars

\* In WAIT_CHAR with digit 1 the key-down of `c` came before the trigger and
\* dispatched 1c.txt
RepressRestartsWitness ==
    /\ last.kind = "down" /\ last.name = K_c /\ last.from = "WAIT_CHAR"
    /\ calls = << Path_1c >>
    /\ state.status = "IDLE"
    /\ state.digit = None

----------------------------------------------------------------------------
(* C20: no spurious sequence dispatch.  Whatever trigger, key-down and      *)
(* key-up events are delivered, on_ctrl_c and on_key_event call             *)
(* copy_file_content only on a key-down of a one-character key c, when the  *)
(* events before it are a reset trigger, then a numeral d no more than      *)
(* TIMEOUT after the trigger and no more than TIMEOUT before c, with only   *)
(* key-up events and ignored prefix keys in between; the one call is for    *)
(* the index entry of d+lower(c).                                           *)
NoSpuriousDispatch ==
    [][ ((Handles("trigger") \/ HandlesAnyKey) /\ calls' # <<>>)
            => /\ last'.kind = "down"
               /\ Len(last'.name) = 1
               /\ track.phase = "digit"
               /\ track.d \in Numerals
               /\ now - track.t <= TIMEOUT
               /\ track.d \o Lower(last'.name) \in DOMAIN state.mapping
               /\ calls' = << state.mapping[track.d \o Lower(last'.name)] >>
      ]_vars

\* The key `a` went down exactly TIMEOUT after the digit 1 and dispatched
\* 1a.txt
NoSpuriousDispatchWitness ==
    /\ last.kind = "down" /\ last.name = K_a /\ last.from = "WAIT_CHAR"
    /\ last.t = state.last_time + TIMEOUT
    /\ calls = << Path_1a >>
    /\ track = NoTrack

----------------------------------------------------------------------------
(* C18: mutual exclusion.  With on_ctrl_c and on_key_event called from two  *)
(* threads, no interleaving of their reads and writes leaves the status     *)
(* WAIT_CHAR with no pending digit once both have returned, nor looks up a  *)
(* Code built from an absent digit.                                         *)
HandlersAtomic ==
    /\ (th.tline = "idle" /\ th.kline = "idle" /\ state.status = "WAIT_CHAR")
          => state.digit # None
    /\ th.kline = "128" => SubSeq(th.key, 1, Len(None)) # None

====
